---- MODULE Spec2Model ----
(***************************************************************************)
(* Model of WebScrapingJobLauncher (src/main.py:170-233): the scheduler    *)
(* that sweeps the incomplete transcription jobs and, for each job, fans   *)
(* one attempt per proxy out on a ThreadPoolExecutor, consuming the        *)
(* results with as_completed and mutating the proxy list, the proxy file   *)
(* and the per-proxy failure dictionary from the statuses it consumes.     *)
(***************************************************************************)
EXTENDS Integers, Sequences, FiniteSets, TLC

\* ---------------------------------------------------------------- bounds
MaxJobs == 2
MaxProxies == 2
MaxWorkers == 2

\* ------------------------------------------------------ program constants
MAX_RETRIES == 3

\* JobStatus members tested at main.py:209/215/219; "Exception" stands for an
\* exception raised by the work function and re-raised by future.result().
Success == "Success"
PageConnectionError == "PageConnectionError"
GenericError == "GenericError"
Exception == "Exception"
Statuses == {Success, PageConnectionError, GenericError, Exception}

NoJob == 0
NoResult == "none"

VARIABLES
    pc,               \* position of the scheduler thread in WebScrapingJobLauncher
    workers,          \* parameter workers (max_workers of each executor)
    uploadFunction,   \* work function: the statuses an attempt with a proxy may return
    isfile,           \* os.path.isfile(job.GetHTMLOutputFilePath()) at launch
    video_jobs,       \* list returned by GenerateJobsFromVideo
    IsCompleted,      \* job.IsCompleted
    Lock,             \* job.Lock.locked()
    incomplete_jobs,  \* list incomplete_jobs
    proxy_list,       \* list proxy_list (in memory)
    proxy_file,       \* contents of PROXY_FILE (persisted list)
    proxy_failures,   \* dict proxy_failures: a function on the keys present
    sweep,            \* the part of list(incomplete_jobs) the for loop has not reached
    job,              \* loop variable job
    submitted,        \* submission order of the round's futures
    futures,          \* dict futures of the round: proxy -> [state, status]
    result,           \* value returned by WebScrapingJobLauncher
    called,           \* history: jobs the work function was invoked for
    ceReturned,       \* history: proxies one of whose attempts returned PageConnectionError
    ceProcessed,      \* history: proxies whose PageConnectionError was consumed
    geCounted,        \* history: GenericErrors consumed per proxy
    marks,            \* history: assignments job.IsCompleted = True per job
    faulty,           \* environment: whether a write of PROXY_FILE may fail
    relaunched,       \* history: a pipeline has invoked the launcher again
    guarded           \* environment: whether the work function takes job.Lock

vars == <<pc, workers, uploadFunction, isfile, video_jobs, IsCompleted, Lock,
          incomplete_jobs, proxy_list, proxy_file, proxy_failures, sweep, job,
          submitted, futures, result, called, ceReturned, ceProcessed,
          geCounted, marks, faulty, relaunched, guarded>>

\* ---------------------------------------------------------------- helpers
Range(s) == {s[i] : i \in DOMAIN s}

\* list.remove(x): deletes the first occurrence of x (the callers test
\* "x in list" first, main.py:212 and 216)
Remove(list, x) ==
    LET i == CHOOSE k \in DOMAIN list :
                 list[k] = x /\ \A m \in 1..(k - 1) : list[m] # x
    IN  [n \in 1..(Len(list) - 1) |-> IF n < i THEN list[n] ELSE list[n + 1]]

\* plausible bug: the jobs whose artifact exists are not filtered out
IncompleteJobsUnfiltered(jobs, exists) == jobs

\* main.py:186
IncompleteJobs(jobs, exists) == SelectSeq(jobs, LAMBDA j : ~exists[j])

\* plausible bug: the loop runs while jobs remain, whatever the proxy list
LoopWhileJobsRemain == incomplete_jobs # <<>>

\* main.py:192
LoopCondition == proxy_list # <<>>

\* plausible bug: any() instead of all()
AnyCompleted == \E j \in Range(video_jobs) : IsCompleted[j]

\* main.py:233
AllCompleted == \A j \in Range(video_jobs) : IsCompleted[j]

\* plausible bug: attempts are submitted for every proxy the run started
\* with, whatever is left of the pool
ProxiesLoadedAtStart == [i \in 1..Cardinality(DOMAIN geCounted) |-> i]

\* main.py:200: "for proxy in proxy_list", the list the comprehension runs over
ProxiesToSubmit == proxy_list

\* main.py:200: executor.submit(uploadFunction, job, proxy, headless_Mode)
\* adds one work item to the executor's queue and its future to the dict
SubmitOne(fs, p) == fs @@ (p :> [state |-> "queued", status |-> NoResult])

Running == {p \in DOMAIN futures : futures[p].state = "running"}
Queued == {p \in DOMAIN futures : futures[p].state = "queued"}
Finished == {p \in DOMAIN futures : futures[p].state = "finished"}

\* plausible bug: an unbounded executor, every submitted item starts at once
WorkerAlwaysFree == TRUE

\* ThreadPoolExecutor(max_workers=workers): a queued work item starts only
\* while fewer than max_workers are running
WorkerFree == Cardinality(Running) < workers

\* the work queue is FIFO: the next item to start is the first queued one
NextQueued(p) ==
    \E i \in DOMAIN submitted :
        /\ submitted[i] = p
        /\ futures[p].state = "queued"
        /\ \A k \in 1..(i - 1) : futures[submitted[k]].state # "queued"

\* plausible bug: shutdown(wait=False), the with block does not wait
ShutdownNoWait == TRUE

\* ThreadPoolExecutor.__exit__ is shutdown(wait=True): it returns when no
\* work item is queued or running
ShutdownDone == Running = {} /\ Queued = {}

\* plausible bug: one tally shared by all proxies, every failure counts
\* against each proxy that has an entry
CountFailureShared(pf, p) ==
    [q \in DOMAIN pf \cup {p} |-> (IF q \in DOMAIN pf THEN pf[q] ELSE 0) + 1]

\* main.py:220
CountFailure(pf, p) ==
    [q \in DOMAIN pf \cup {p} |->
        IF q = p THEN (IF p \in DOMAIN pf THEN pf[p] ELSE 0) + 1 ELSE pf[q]]

\* plausible bug: off by one, > instead of >=
ExceededMaxRetries(n) == n > MAX_RETRIES

\* main.py:221
ReachedMaxRetries(n) == n >= MAX_RETRIES

\* plausible bug: the entry of an evicted proxy is not deleted
DeleteKeyKept(pf, p) == pf

\* plausible bug: the count of an evicted proxy is reset, its entry kept
DeleteKeyZeroed(pf, p) == [pf EXCEPT ![p] = 0]

\* main.py:224
DeleteKey(pf, p) == [q \in DOMAIN pf \ {p} |-> pf[q]]

\* plausible bug: the removal is skipped
EvictNothing(list, p) == list

\* main.py:216-217 and 222-223
Evict(list, p) == IF p \in Range(list) THEN Remove(list, p) ELSE list

\* main.py:218 and 225: WriteJson(PROXY_FILE, proxy_list)
WriteJson(list) == list

\* ------------------------------------------------------------------ Init
\* a job descriptor as GenerateJobsFromVideo creates it: not completed, its
\* lock free
NewJobIsCompleted(jobs) == [j \in Range(jobs) |-> FALSE]
NewJobLock(jobs) == [j \in Range(jobs) |-> FALSE]

\* a work function that takes job.Lock, in the executor's threads: the guard
\* says that an attempt is in flight for the job. It is held from the start
\* of an attempt of the job until no attempt of the job is running any more.
LockAfterStart(lock, j) == [lock EXCEPT ![j] = TRUE]
LockAfterFinish(lock, j, running) == [lock EXCEPT ![j] = running # {}]

\* getProxyList(PROXY_FILE, MAX_AGE_SECONDS): the list it returns is the
\* content of the proxy file
StoredProxies(list) == list

InitCommon ==
    /\ pc = "start"
    /\ relaunched = FALSE
    /\ Lock = NewJobLock(video_jobs)
    /\ IsCompleted = NewJobIsCompleted(video_jobs)
    /\ incomplete_jobs = <<>>
    /\ proxy_file = StoredProxies(proxy_list)
    /\ proxy_failures = <<>>
    /\ sweep = <<>>
    /\ job = NoJob
    /\ submitted = <<>>
    /\ futures = <<>>
    /\ result = NoResult
    /\ called = {}
    /\ ceReturned = {}
    /\ ceProcessed = {}
    /\ geCounted = [p \in Range(proxy_list) |-> 0]
    /\ marks = [j \in Range(video_jobs) |-> 0]

Init ==
    /\ workers \in 1..MaxWorkers
    /\ video_jobs = [i \in 1..MaxJobs |-> i]
    /\ isfile \in [1..MaxJobs -> BOOLEAN]
    /\ \E n \in 0..MaxProxies : proxy_list = [i \in 1..n |-> i]
    /\ uploadFunction = [p \in 1..MaxProxies |-> Statuses]
    /\ faulty = FALSE
    /\ guarded = FALSE
    /\ InitCommon

\* --------------------------------------------------------------- scheduler
\* main.py:184-190
Launch ==
    /\ pc = "start"
    /\ incomplete_jobs' = IncompleteJobs(video_jobs, isfile)
    /\ IF incomplete_jobs' = <<>>
         THEN pc' = "done" /\ result' = TRUE
         ELSE pc' = "while" /\ result' = result
    /\ UNCHANGED <<guarded, relaunched, faulty, workers, uploadFunction, isfile, video_jobs, IsCompleted, Lock,
                   proxy_list, proxy_file, proxy_failures, sweep, job, submitted,
                   futures, called, ceReturned, ceProcessed, geCounted, marks>>

\* main.py:192-193 and 233
WhileTest ==
    /\ pc = "while"
    /\ IF LoopCondition
         THEN pc' = "for" /\ sweep' = incomplete_jobs /\ result' = result
         ELSE pc' = "done" /\ sweep' = sweep /\ result' = AllCompleted
    /\ UNCHANGED <<guarded, relaunched, faulty, workers, uploadFunction, isfile, video_jobs, IsCompleted, Lock,
                   incomplete_jobs, proxy_list, proxy_file, proxy_failures, job,
                   submitted, futures, called, ceReturned, ceProcessed, geCounted,
                   marks>>

\* main.py:193-198: next job of the sweep; skipped if its lock is held,
\* otherwise an executor is created (no work item submitted yet)
ForNext ==
    /\ pc = "for"
    /\ sweep # <<>>
    /\ job' = Head(sweep)
    /\ sweep' = Tail(sweep)
    /\ IF Lock[Head(sweep)]
         THEN pc' = "for" /\ UNCHANGED <<submitted, futures>>
         ELSE /\ submitted' = <<>>
              /\ futures' = <<>>
              /\ pc' = "submit"
    /\ UNCHANGED <<guarded, relaunched, faulty, workers, uploadFunction, isfile, video_jobs, IsCompleted, Lock,
                   incomplete_jobs, proxy_list, proxy_file, proxy_failures, result,
                   called, ceReturned, ceProcessed, geCounted, marks>>

\* main.py:200-202: one step of the comprehension: the next proxy of the list
\* is submitted, and after the last one the scheduler goes on to
\* as_completed; over an empty list nothing is submitted and as_completed
\* yields nothing. The executor's threads run the items already submitted
\* in the meantime.
Submit ==
    /\ pc = "submit"
    /\ IF Len(submitted) < Len(ProxiesToSubmit)
         THEN /\ submitted' = Append(submitted, ProxiesToSubmit[Len(submitted) + 1])
              /\ futures' = SubmitOne(futures, ProxiesToSubmit[Len(submitted) + 1])
              /\ pc' = IF Len(submitted) + 1 < Len(ProxiesToSubmit)
                          THEN "submit" ELSE "as_completed"
         ELSE /\ pc' = "shutdown"
              /\ UNCHANGED <<submitted, futures>>
    /\ UNCHANGED <<guarded, relaunched, faulty, workers, uploadFunction, isfile, video_jobs,
                   IsCompleted, Lock, incomplete_jobs, proxy_list, proxy_file,
                   proxy_failures, sweep, job, result, called, ceReturned,
                   ceProcessed, geCounted, marks>>

\* main.py:231: the sweep is over
Sleep ==
    /\ pc = "for"
    /\ sweep = <<>>
    /\ pc' = "while"
    /\ UNCHANGED <<guarded, relaunched, faulty, workers, uploadFunction, isfile, video_jobs, IsCompleted, Lock,
                   incomplete_jobs, proxy_list, proxy_file, proxy_failures, sweep,
                   job, submitted, futures, result, called, ceReturned,
                   ceProcessed, geCounted, marks>>

\* ----------------------------------------------------------------- workers
\* an executor thread takes the next work item and calls
\* uploadFunction(job, proxy, headless_Mode)
WorkerStart(p) ==
    /\ pc \in {"submit", "as_completed", "shutdown", "unwinding"}
    /\ NextQueued(p)
    /\ WorkerFree
    /\ futures' = [futures EXCEPT ![p].state = "running"]
    /\ called' = called \cup {job}
    /\ Lock' = IF guarded THEN LockAfterStart(Lock, job) ELSE Lock
    /\ UNCHANGED <<guarded, relaunched, faulty, pc, workers, uploadFunction, isfile, video_jobs, IsCompleted,
                   incomplete_jobs, proxy_list, proxy_file, proxy_failures,
                   sweep, job, submitted, result, ceReturned, ceProcessed,
                   geCounted, marks>>

\* the call returns a JobStatus (or raises); the future becomes done
WorkerFinish(p) ==
    /\ pc \in {"submit", "as_completed", "shutdown", "unwinding"}
    /\ p \in Running
    /\ \E status \in uploadFunction[p] :
        /\ futures' = [futures EXCEPT ![p] = [state |-> "finished", status |-> status]]
        /\ ceReturned' = IF status = PageConnectionError
                           THEN ceReturned \cup {p} ELSE ceReturned
    /\ Lock' = IF guarded THEN LockAfterFinish(Lock, job, Running \ {p}) ELSE Lock
    /\ UNCHANGED <<guarded, relaunched, faulty, pc, workers, uploadFunction, isfile, video_jobs, IsCompleted,
                   incomplete_jobs, proxy_list, proxy_file, proxy_failures,
                   sweep, job, submitted, result, called, ceProcessed, geCounted,
                   marks>>

\* ------------------------------------------------- consuming one outcome
\* main.py:211
CompletedAfter(status, completed, j) ==
    IF status = Success THEN [completed EXCEPT ![j] = TRUE] ELSE completed

\* plausible bug: the completed job is left in incomplete_jobs
JobsAfterKept(status, jobs, j) == jobs

\* main.py:212-213
JobsAfter(status, jobs, j) ==
    IF status = Success /\ j \in Range(jobs) THEN Remove(jobs, j) ELSE jobs

\* plausible change: a Success clears the proxy's entry
FailuresAfterResetOnSuccess(status, pf, p) ==
    CASE status = GenericError ->
           IF ReachedMaxRetries(CountFailure(pf, p)[p])
             THEN DeleteKey(CountFailure(pf, p), p)
             ELSE CountFailure(pf, p)
      [] status = Success -> DeleteKey(pf, p)
      [] OTHER -> pf

\* main.py:219-224: the failure dictionary after one consumed status
FailuresAfter(status, pf, p) ==
    IF status = GenericError
      THEN IF ReachedMaxRetries(CountFailure(pf, p)[p])
             THEN DeleteKey(CountFailure(pf, p), p)
             ELSE CountFailure(pf, p)
      ELSE pf

\* plausible bug: PageConnectionError does not remove the proxy
ProxiesAfterKeptOnConnectionError(status, pf, list, p) ==
    IF status = GenericError /\ ReachedMaxRetries(CountFailure(pf, p)[p])
      THEN Evict(list, p)
      ELSE list

\* main.py:215-217 and 221-223: the proxy list after one consumed status
ProxiesAfter(status, pf, list, p) ==
    CASE status = PageConnectionError -> Evict(list, p)
      [] status = GenericError /\ ReachedMaxRetries(CountFailure(pf, p)[p]) -> Evict(list, p)
      [] OTHER -> list

\* plausible bug: the eviction after MAX_RETRIES failures is not written
PersistsOnConnectionErrorOnly(status, pf, list, p) ==
    status = PageConnectionError /\ p \in Range(list)

\* main.py:218 and 225: whether the consumed status makes the scheduler
\* overwrite PROXY_FILE with the resulting list
Persists(status, pf, list, p) ==
    \/ status = PageConnectionError /\ p \in Range(list)
    \/ status = GenericError /\ ReachedMaxRetries(CountFailure(pf, p)[p])

FileAfter(status, pf, list, file, p) ==
    IF Persists(status, pf, list, p)
      THEN WriteJson(ProxiesAfter(status, pf, list, p))
      ELSE file

\* a write that fails is reported by WriteJson, which returns without
\* raising and leaves PROXY_FILE as it was
FileResults(status, pf, list, file, p) ==
    {FileAfter(status, pf, list, file, p)}
        \cup (IF faulty /\ Persists(status, pf, list, p) THEN {file} ELSE {})

\* plausible bug: no break on Success, the loop goes on consuming
AfterOutcomeNoBreak(status, left) ==
    CASE status = Exception -> "unwinding"
      [] OTHER -> IF left = {} THEN "shutdown" ELSE "as_completed"

\* plausible bug: an exception of the work function is swallowed like a
\* failure status
AfterOutcomeSwallowsException(status, left) ==
    CASE status = Success -> "shutdown"
      [] OTHER -> IF left = {} THEN "shutdown" ELSE "as_completed"

\* plausible bug: the loop is left after the first outcome, whatever it is
AfterOutcomeBreakOnFirst(status, left) ==
    CASE status = Exception -> "unwinding"
      [] OTHER -> "shutdown"

\* main.py:202, 205, 214: where the scheduler goes after one consumed status:
\* break on Success, propagate an exception, otherwise the next completed
\* future, or the end of the with block when none is left
AfterOutcome(status, left) ==
    CASE status = Success -> "shutdown"
      [] status = Exception -> "unwinding"
      [] OTHER -> IF left = {} THEN "shutdown" ELSE "as_completed"

\* main.py:202-226: one iteration of "for future in as_completed(futures)"
Consume(p) ==
    /\ pc = "as_completed"
    /\ p \in Finished
    /\ LET status == futures[p].status IN
        /\ futures' = [futures EXCEPT ![p].state = "consumed"]
        /\ IsCompleted' = CompletedAfter(status, IsCompleted, job)
        /\ incomplete_jobs' = JobsAfter(status, incomplete_jobs, job)
        /\ proxy_list' = ProxiesAfter(status, proxy_failures, proxy_list, p)
        /\ proxy_file' \in FileResults(status, proxy_failures, proxy_list, proxy_file, p)
        /\ proxy_failures' = FailuresAfter(status, proxy_failures, p)
        /\ pc' = AfterOutcome(status,
                     {q \in DOMAIN futures : q # p /\ futures[q].state # "consumed"})
        /\ ceProcessed' = IF status = PageConnectionError
                            THEN ceProcessed \cup {p} ELSE ceProcessed
        /\ geCounted' = IF status = GenericError
                          THEN [geCounted EXCEPT ![p] = @ + 1] ELSE geCounted
        /\ marks' = IF status = Success THEN [marks EXCEPT ![job] = @ + 1] ELSE marks
    /\ UNCHANGED <<guarded, relaunched, faulty, workers, uploadFunction, isfile, video_jobs, Lock, sweep, job,
                   submitted, result, called, ceReturned>>

\* the work items the executor still holds: those not yet done
InFlight == [p \in Running \cup Queued |-> futures[p]]

\* main.py:198, 228-229: end of the with block; the executor is shut down
\* with wait, then the for loop goes on, or the exception leaves the launcher
WithExit ==
    /\ pc \in {"shutdown", "unwinding"}
    /\ ShutdownDone
    /\ pc' = IF pc = "unwinding" THEN "raised" ELSE "for"
    /\ futures' = InFlight
    /\ submitted' = SelectSeq(submitted, LAMBDA p : p \in DOMAIN InFlight)
    /\ UNCHANGED <<guarded, relaunched, faulty, workers, uploadFunction, isfile, video_jobs, IsCompleted, Lock,
                   incomplete_jobs, proxy_list, proxy_file, proxy_failures, sweep,
                   job, result, called, ceReturned, ceProcessed, geCounted, marks>>

\* ------------------------------------------------------- specifications
Scheduler == Launch \/ WhileTest \/ ForNext \/ Submit \/ Sleep \/ WithExit
                \/ \E p \in DOMAIN futures : Consume(p)

Worker == \E p \in DOMAIN futures : WorkerStart(p) \/ WorkerFinish(p)

Next == Scheduler \/ Worker

Spec == Init /\ [][Next]_vars

\* the scheduler thread and the executor threads keep running, and the work
\* function returns
FairSpec == Spec /\ WF_vars(Scheduler) /\ WF_vars(Worker)

\* scenario of three jobs and two proxies: proxy 1 ("A") always returns
\* PageConnectionError, proxy 2 ("B") always returns Success
ScenarioJobs == <<1, 2, 3>>
ScenarioProxies == <<1, 2>>
ProxyA == ScenarioProxies[1]
ProxyB == ScenarioProxies[2]

InitC10 ==
    /\ workers \in 1..MaxWorkers
    /\ video_jobs = ScenarioJobs
    /\ isfile = [j \in Range(ScenarioJobs) |-> FALSE]
    /\ proxy_list = ScenarioProxies
    /\ uploadFunction = (ProxyA :> {PageConnectionError}) @@ (ProxyB :> {Success})
    /\ faulty = FALSE
    /\ guarded = FALSE
    /\ InitCommon

SpecC10 == InitC10 /\ [][Next]_vars

\* scenario of two incomplete jobs and one proxy that always returns
\* GenericError; the job list may also hold jobs whose artifact exists
FailingProxy == ScenarioProxies[1]
PendingJobs == <<1, 2>>

InitC11 ==
    /\ workers \in 1..MaxWorkers
    /\ \E extra \in 0..MaxJobs :
          /\ video_jobs = [i \in 1..(Len(PendingJobs) + extra) |-> i]
          /\ isfile = [i \in 1..(Len(PendingJobs) + extra) |-> i > Len(PendingJobs)]
    /\ proxy_list = <<FailingProxy>>
    /\ uploadFunction = (FailingProxy :> {GenericError})
    /\ faulty = FALSE
    /\ guarded = FALSE
    /\ InitCommon

SpecC11 == InitC11 /\ [][Next]_vars

FairSpecC11 == SpecC11 /\ WF_vars(Scheduler) /\ WF_vars(Worker)

\* the launcher with a work function that may or may not take job.Lock
\* (nothing under main.py:170-233 takes it)
InitC9 ==
    /\ workers \in 1..MaxWorkers
    /\ video_jobs = [i \in 1..MaxJobs |-> i]
    /\ isfile \in [1..MaxJobs -> BOOLEAN]
    /\ \E n \in 0..MaxProxies : proxy_list = [i \in 1..n |-> i]
    /\ uploadFunction = [p \in 1..MaxProxies |-> Statuses]
    /\ faulty = FALSE
    /\ guarded \in BOOLEAN
    /\ InitCommon

SpecC9 == InitC9 /\ [][Next]_vars

\* the launcher on a disk where any write of PROXY_FILE may fail
InitC15 ==
    /\ workers \in 1..MaxWorkers
    /\ video_jobs = [i \in 1..MaxJobs |-> i]
    /\ isfile \in [1..MaxJobs -> BOOLEAN]
    /\ \E n \in 0..MaxProxies : proxy_list = [i \in 1..n |-> i]
    /\ uploadFunction = [p \in 1..MaxProxies |-> Statuses]
    /\ faulty = TRUE
    /\ guarded = FALSE
    /\ InitCommon

SpecC15 == InitC15 /\ [][Next]_vars

\* ------------------------------------------------------------ pipelines
\* the artifacts on disk when the job list is generated again: the work
\* function writes a job's artifact, so that the file of a job it was
\* called for may exist by now; the other files are as they were
ArtifactsAfter ==
    {f \in [DOMAIN isfile -> BOOLEAN] :
        \A j \in DOMAIN isfile :
            /\ (isfile[j] => f[j])
            /\ (f[j] # isfile[j] => j \in called)}

\* plausible bug: the negation is forgotten, jobToDo = WebScrapingJobLauncher(...)
jobToDoNotNegated == result = TRUE

\* main.py:130 and 156: jobToDo = not WebScrapingJobLauncher(...)
jobToDo == result = FALSE

\* main.py:128-135 and 154-161: the launcher returned False, jobToDo stays
\* True and the launcher is invoked again; main.py:182-186: it loads the
\* proxy list and generates the jobs anew
Relaunch ==
    /\ pc = "done"
    /\ jobToDo
    /\ pc' = "start"
    /\ relaunched' = TRUE
    /\ isfile' \in ArtifactsAfter
    /\ \E n \in 0..MaxProxies : proxy_list' = [i \in 1..n |-> i]
    /\ proxy_file' = StoredProxies(proxy_list')
    /\ Lock' = NewJobLock(video_jobs)
    /\ IsCompleted' = NewJobIsCompleted(video_jobs)
    /\ incomplete_jobs' = <<>>
    /\ proxy_failures' = <<>>
    /\ sweep' = <<>>
    /\ job' = NoJob
    /\ submitted' = <<>>
    /\ futures' = <<>>
    /\ result' = NoResult
    /\ called' = {}
    /\ ceReturned' = {}
    /\ ceProcessed' = {}
    /\ geCounted' = [p \in Range(proxy_list') |-> 0]
    /\ marks' = [j \in Range(video_jobs) |-> 0]
    /\ UNCHANGED <<guarded, faulty, workers, uploadFunction, video_jobs>>

\* main.py:136-140 and 162-166: the launcher returned True, jobToDo is
\* False, the while loop is left and ExtractTextFromFolder is called
Extract ==
    /\ pc = "done"
    /\ ~jobToDo
    /\ pc' = "extracting"
    /\ UNCHANGED <<guarded, relaunched, faulty, workers, uploadFunction, isfile, video_jobs,
                   IsCompleted, Lock, incomplete_jobs, proxy_list, proxy_file,
                   proxy_failures, sweep, job, submitted, futures, result,
                   called, ceReturned, ceProcessed, geCounted, marks>>

\* AudioPipeline / VideoPipeline from the upload step on
Pipeline == Next \/ Relaunch \/ Extract

SpecC22 == Init /\ [][Pipeline]_vars

\* --------------------------------------------------------- claim helpers
JobSet == Range(video_jobs)

\* a round is in progress: the with block of main.py:198 has been entered
\* and not left
InRound == pc \in {"submit", "as_completed", "shutdown", "unwinding"}

\* this step starts a dispatch round (main.py:198)
RoundStarts == pc = "for" /\ pc' = "submit"

\* this step submits the round's attempt with proxy p (main.py:200)
Submits(p) == pc = "submit" /\ p \notin DOMAIN futures /\ p \in DOMAIN futures'

\* this step ends the submissions of the round (main.py:200-202)
SubmissionEnds == pc = "submit" /\ pc' \in {"as_completed", "shutdown"}

\* this step consumes the outcome `status` of the attempt made with proxy p
ConsumedStep(p, status) ==
    /\ p \in DOMAIN futures /\ p \in DOMAIN futures'
    /\ futures[p].state = "finished" /\ futures[p].status = status
    /\ futures'[p].state = "consumed"

\* the job is completed: its artifact existed at launch or it received a Success
EndedCompleted(j) == isfile[j] \/ marks[j] > 0

\* ------------------------------------------------------------------- C1
\* C1: the work function is never invoked for a job whose output artifact
\* exists at launch, and when every artifact exists the launcher returns
\* True at once without invoking the work function at all.
C1_PreExistingNeverUploaded ==
    /\ \A j \in JobSet : isfile[j] => j \notin called /\ job # j
    /\ ((\A j \in JobSet : isfile[j]) /\ pc # "start")
          => (pc = "done" /\ result = TRUE /\ called = {})

\* a run that returned, in which some artifact pre-existed and the work
\* function was invoked for another job
C1_Witness ==
    /\ pc = "done"
    /\ \E j \in JobSet : isfile[j]
    /\ called # {}

\* ------------------------------------------------------------------- C2
\* C2: the round loop exits as soon as incomplete_jobs is empty, even when
\* the proxy list is not: when the loop condition is evaluated with no
\* incomplete job left, the launcher returns.
C2_LoopExitsWhenNoJobIncomplete ==
    [][(pc = "while" /\ incomplete_jobs = <<>>) => pc' = "done"]_vars

\* ------------------------------------------------------------------- C3
\* C3: once the proxy list is empty while jobs are still incomplete, the
\* launcher terminates, without raising, and returns False.
C3_EmptyPoolTerminatesFalse ==
    (proxy_list = <<>> /\ incomplete_jobs # <<>>)
        ~> (pc = "done" /\ result = FALSE)

\* the launcher returned False after the proxy list was emptied during the run
C3_Witness ==
    /\ pc = "done" /\ result = FALSE
    /\ proxy_list = <<>> /\ incomplete_jobs # <<>>
    /\ proxy_file = <<>>
    /\ ceProcessed # {}

\* ------------------------------------------------------------------- C4
\* C4: whenever the launcher returns, it returns True if and only if every
\* job ended completed (artifact pre-existing, or a Success during the run).
C4_ReturnsTrueIffAllCompleted ==
    pc = "done" => (result = TRUE <=> \A j \in JobSet : EndedCompleted(j))

\* the launcher returned through main.py:233 with one job completed during
\* the run and another one still incomplete
C4_Witness ==
    /\ pc = "done" /\ result = FALSE
    /\ \E j \in JobSet : marks[j] > 0
    /\ \E j \in JobSet : ~EndedCompleted(j)

\* ------------------------------------------------------------------- C5
\* C5 as stated: a proxy one of whose attempts returned PageConnectionError
\* is not offered to any round that starts afterwards and is no longer in
\* the proxy file when that round starts, whatever the completion order.
C5_ReturnedConnectionErrorNeverOfferedAgain ==
    /\ [][RoundStarts => \A p \in ceReturned : p \notin Range(proxy_file)]_vars
    /\ [][\A p \in ceReturned : ~Submits(p)]_vars

\* C5 as amended: a proxy whose PageConnectionError outcome was consumed by
\* the scheduler is, from that step on, neither in the proxy list nor in the
\* proxy file, and no round that starts afterwards offers it.
C5_ConsumedConnectionErrorNeverOfferedAgain ==
    /\ [](\A p \in ceProcessed :
              p \notin Range(proxy_list) /\ p \notin Range(proxy_file))
    /\ [][\A p \in ceProcessed : ~Submits(p)]_vars

\* a later round is running with attempts, none of them with a proxy whose
\* PageConnectionError was consumed earlier
C5_Witness ==
    /\ pc = "as_completed"
    /\ \E p \in ceProcessed : p \notin DOMAIN futures
    /\ \E q \in DOMAIN futures : futures[q].state = "running"

\* ------------------------------------------------------------------- C6
\* C6: while fewer than MAX_RETRIES GenericErrors were counted for a proxy
\* and no PageConnectionError was processed for it, the proxy is in the proxy
\* list, and every round that starts offers exactly the proxies of the list;
\* the step that counts the MAX_RETRIES-th GenericError removes the proxy,
\* writes the resulting list to the proxy file and deletes its tally entry.
C6_EvictedExactlyAtMaxRetries ==
    /\ [](\A p \in DOMAIN geCounted :
            /\ (geCounted[p] < MAX_RETRIES /\ p \notin ceProcessed)
                  => p \in Range(proxy_list)
            /\ geCounted[p] <= MAX_RETRIES
            /\ geCounted[p] = MAX_RETRIES
                  => /\ p \notin Range(proxy_list)
                     /\ p \notin Range(proxy_file)
                     /\ p \notin DOMAIN proxy_failures)
    /\ [][SubmissionEnds => DOMAIN futures' = Range(proxy_list)]_vars
    /\ [][\A p \in DOMAIN geCounted :
            (geCounted[p] < MAX_RETRIES /\ geCounted'[p] = MAX_RETRIES)
               => /\ p \in Range(proxy_list) /\ p \notin Range(proxy_list')
                  /\ proxy_file' = proxy_list'
                  /\ p \in DOMAIN proxy_failures
                  /\ p \notin DOMAIN proxy_failures']_vars

\* the third GenericError of a proxy has just been consumed and evicted it
C6_Witness ==
    \E p \in DOMAIN geCounted :
        /\ geCounted[p] = MAX_RETRIES
        /\ p \notin ceProcessed
        /\ p \notin Range(proxy_list)
        /\ p \in DOMAIN futures
        /\ futures[p] = [state |-> "consumed", status |-> GenericError]

\* ------------------------------------------------------------------- C7
\* C7 as stated: the step that processes a Success of proxy P resets P's
\* tally to zero (P has no counted failure afterwards).
C7_SuccessResetsTally ==
    [][\A p \in DOMAIN futures :
          ConsumedStep(p, Success) => p \notin DOMAIN proxy_failures']_vars

\* C7 as amended: the tally counts all the GenericErrors consumed for a proxy
\* during the run; the step that processes a Success leaves the failure
\* dictionary unchanged, so an entry always equals the number of
\* GenericErrors counted so far, Successes in between or not.
C7_SuccessLeavesTally ==
    /\ [][\A p \in DOMAIN futures :
            ConsumedStep(p, Success) => proxy_failures' = proxy_failures]_vars
    /\ [](\A p \in DOMAIN proxy_failures : proxy_failures[p] = geCounted[p])

\* GenericError, GenericError, Success: the Success of a proxy has just been
\* consumed and its tally is still MAX_RETRIES - 1
C7_Witness ==
    \E p \in DOMAIN proxy_failures :
        /\ pc = "shutdown"
        /\ p \in DOMAIN futures
        /\ futures[p] = [state |-> "consumed", status |-> Success]
        /\ proxy_failures[p] = MAX_RETRIES - 1

\* ------------------------------------------------------------------- C8
\* C8: IsCompleted only goes from False to True, is assigned True at most
\* once per job and run (on the Success that ends the job's round), stays
\* set whatever the other attempts of the job return, and a completed job
\* is never dispatched again.
C8_CompletionLatched ==
    /\ [][\A j \in JobSet : IsCompleted[j] => IsCompleted'[j]]_vars
    /\ [](\A j \in JobSet : marks[j] <= 1 /\ (IsCompleted[j] <=> marks[j] = 1))
    /\ [][RoundStarts => ~IsCompleted[job'] /\ job' \in Range(incomplete_jobs)]_vars
    /\ [](\A j \in JobSet : IsCompleted[j] => j \notin Range(incomplete_jobs))

\* the job of the round is completed and a straggling attempt of the same
\* round has returned a failure that nobody consumed
C8_Witness ==
    /\ pc = "shutdown"
    /\ job \in JobSet /\ IsCompleted[job] /\ marks[job] = 1
    /\ \E p \in DOMAIN futures :
          /\ futures[p].state = "finished"
          /\ futures[p].status \in {GenericError, PageConnectionError}

\* ------------------------------------------------------------------- C9
\* C9 as stated: rounds never overlap (no attempt is in flight when the
\* scheduler is between rounds), the scheduler holds the job's guard for
\* the whole round, and the guard is free again once the round is left.
C9_GuardHeldForTheRound ==
    /\ ~InRound => futures = <<>>
    /\ InRound => Lock[job]
    /\ ~InRound => \A j \in JobSet : ~Lock[j]

\* C9 as amended: rounds never overlap, because the with block is left only
\* once every attempt of the round is done: whenever the scheduler is
\* between rounds no attempt is in flight and no job's guard is held, so
\* the guard of the job is free when its round starts. The scheduler only
\* tests the guard: no step of the scheduler changes a guard, which changes
\* (if the work function takes it at all) only in the step of an executor
\* thread that starts or ends an attempt of the round's job; a round in
\* progress does not by itself hold the guard.
C9_RoundsSerialisedWithoutGuard ==
    /\ [](~InRound => (futures = <<>> /\ \A j \in JobSet : ~Lock[j]))
    /\ [][RoundStarts => (~Lock[job'] /\ Lock' = Lock)]_vars
    /\ [][Lock' # Lock =>
            /\ pc' = pc
            /\ \A j \in JobSet \ {job} : Lock'[j] = Lock[j]
            /\ \E p \in DOMAIN futures :
                  /\ futures'[p].state # futures[p].state
                  /\ "running" \in {futures[p].state, futures'[p].state}]_vars
    /\ [](\A j \in JobSet : Lock[j] => (j = job /\ Running # {}))

\* a later round for the only job that is ever dispatched is in progress,
\* with a work function that takes the guard: an earlier round for the job
\* counted a GenericError of a proxy whose attempt of this round is still
\* queued, no attempt runs and the guard is free
C9_Witness ==
    /\ guarded
    /\ pc \in {"submit", "as_completed"}
    /\ job \in JobSet /\ ~Lock[job]
    /\ \A j \in JobSet \ {job} : isfile[j]
    /\ Running = {}
    /\ \E p \in DOMAIN futures : futures[p].state = "queued" /\ geCounted[p] > 0

\* ------------------------------------------------------------------ C10
\* C10: in the scenario (3 incomplete jobs, proxy A always
\* PageConnectionError, proxy B always Success) the run ends, for every
\* completion order, with the 3 jobs completed and only proxy B in the proxy
\* list and in the proxy file: when the loop condition is evaluated with
\* the 3 jobs completed, the launcher returns and the pool is <<B>>.
C10_ScenarioEndsWithOnlyProxyB ==
    [][(pc = "while" /\ \A j \in JobSet : IsCompleted[j])
          => /\ pc' = "done"
             /\ proxy_list = <<ProxyB>>
             /\ proxy_file = <<ProxyB>>]_vars

\* ------------------------------------------------------------------ C11
\* C11: in the scenario (2 incomplete jobs, 1 proxy that always returns
\* GenericError) the proxy leaves the pool in the step that consumes its
\* third GenericError, counted over the rounds of both jobs, and the run
\* then ends: the launcher returns False with both jobs incomplete, the
\* proxy list and the proxy file empty and the failure dictionary empty.
C11_Final ==
    /\ pc = "done" /\ result = FALSE
    /\ \A j \in Range(PendingJobs) : ~IsCompleted[j] /\ j \in Range(incomplete_jobs)
    /\ proxy_list = <<>> /\ proxy_file = <<>>
    /\ DOMAIN proxy_failures = {}
    /\ geCounted[FailingProxy] = MAX_RETRIES

C11_ScenarioEndsWithEmptyPool ==
    /\ <>C11_Final
    /\ [](pc = "done" => C11_Final)
    /\ [](pc # "raised")
    /\ [][proxy_list' # proxy_list =>
            /\ ConsumedStep(FailingProxy, GenericError)
            /\ geCounted[FailingProxy] = MAX_RETRIES - 1
            /\ geCounted'[FailingProxy] = MAX_RETRIES
            /\ proxy_list' = <<>>]_vars

\* the run has ended after the work function was invoked for both jobs
C11_Witness ==
    /\ C11_Final
    /\ Range(PendingJobs) \subseteq called

\* ------------------------------------------------------------------ C12
\* the round's Success has been consumed
SuccessConsumed ==
    /\ InRound
    /\ \E p \in DOMAIN futures :
          futures[p] = [state |-> "consumed", status |-> Success]

\* C12: once the first Success of a round is consumed, no other outcome of
\* the round is consumed: the proxy list, the proxy file and the failure
\* dictionary stay as they are until the round is left, and the round is
\* left (the for loop goes on).
C12_OutcomesAfterSuccessDiscarded ==
    /\ [][SuccessConsumed =>
            /\ proxy_list' = proxy_list
            /\ proxy_file' = proxy_file
            /\ proxy_failures' = proxy_failures
            /\ \A p \in DOMAIN futures \cap DOMAIN futures' :
                  futures'[p].state = "consumed" => futures[p].state = "consumed"
            /\ pc' \in {"shutdown", "for"}]_vars
    /\ SuccessConsumed ~> (pc = "for")

\* after the Success, a straggler has returned the GenericError that would
\* have been its proxy's third
C12_Witness ==
    /\ SuccessConsumed
    /\ \E p \in DOMAIN futures :
          /\ futures[p] = [state |-> "finished", status |-> GenericError]
          /\ p \in DOMAIN proxy_failures
          /\ proxy_failures[p] = MAX_RETRIES - 1
          /\ p \in Range(proxy_list)

\* ------------------------------------------------------------------ C13
\* this step leaves the with block of the round (main.py:198)
RoundEnds == pc = "shutdown" /\ pc' = "for"

\* C13 as stated: every attempt outcome of a round is applied, also those of
\* the attempts that lose to an earlier Success: when the round is left
\* every attempt's outcome has been consumed.
C13_EveryOutcomeApplied ==
    [][RoundEnds =>
          \A p \in DOMAIN futures : futures[p].state = "consumed"]_vars

\* C13 as amended: an outcome is applied in the step that consumes it, and
\* outcomes are consumed only until the round's first Success: the attempts
\* that lose to a Success are allowed to finish before the round is left,
\* but their outcomes are never consumed, so they neither evict nor count
\* against their proxy, nor touch the job's completion.
C13_OutcomesAppliedUntilSuccess ==
    /\ [][\A p \in DOMAIN futures :
            /\ ConsumedStep(p, PageConnectionError)
                  => p \notin Range(proxy_list') /\ proxy_file' = proxy_list'
            /\ ConsumedStep(p, GenericError)
                  => /\ geCounted'[p] = geCounted[p] + 1
                     /\ (geCounted'[p] = MAX_RETRIES) = (p \notin Range(proxy_list'))
            /\ (ConsumedStep(p, PageConnectionError) \/ ConsumedStep(p, GenericError))
                  => IsCompleted' = IsCompleted]_vars
    /\ [][RoundEnds =>
            /\ \A p \in DOMAIN futures : futures[p].state \in {"finished", "consumed"}
            /\ (\E p \in DOMAIN futures : futures[p].state = "finished")
                  => SuccessConsumed]_vars
    /\ [][SuccessConsumed =>
            /\ proxy_list' = proxy_list /\ proxy_failures' = proxy_failures
            /\ geCounted' = geCounted /\ ceProcessed' = ceProcessed
            /\ IsCompleted' = IsCompleted]_vars

\* the round can be left: every attempt is done, and the loser's
\* PageConnectionError was not consumed, its proxy still in list and file
C13_Witness ==
    /\ pc = "shutdown" /\ ShutdownDone
    /\ SuccessConsumed
    /\ \E p \in DOMAIN futures :
          /\ futures[p] = [state |-> "finished", status |-> PageConnectionError]
          /\ p \notin ceProcessed
          /\ p \in Range(proxy_list) /\ p \in Range(proxy_file)

\* ------------------------------------------------------------------ C14
\* the proxies removed from the in-memory list since the launch
Evicted == {p \in DOMAIN geCounted : p \notin Range(proxy_list)}

\* C14: the step that removes a proxy from the in-memory list (by
\* PageConnectionError or at the MAX_RETRIES-th GenericError) also overwrites
\* the proxy file with the resulting list, before any other outcome is
\* consumed or any round starts; hence, once a proxy has been evicted, the
\* file equals the in-memory list at every later decision of the scheduler.
C14_RemovalIsPersisted ==
    /\ [][proxy_list' # proxy_list =>
            /\ proxy_file' = proxy_list'
            /\ \E p \in DOMAIN futures :
                  \/ ConsumedStep(p, PageConnectionError)
                  \/ ConsumedStep(p, GenericError)]_vars
    /\ [](Evicted # {} => proxy_file = proxy_list)

\* after an eviction, with a proxy left, the scheduler is about to consume
\* the next outcome
C14_Witness ==
    /\ pc = "as_completed"
    /\ Evicted # {}
    /\ proxy_list # <<>> /\ proxy_file = proxy_list
    /\ Finished # {}

\* ------------------------------------------------------------------ C15
\* this step evicts a proxy and its write of the proxy file fails
WriteFails == proxy_list' # proxy_list /\ proxy_file' = proxy_file

\* C15: when the write of the proxy file fails after an eviction, the run is
\* not aborted: the scheduler goes on consuming outcomes and starting
\* rounds, which offer the proxies of the in-memory list, and the evicted
\* proxy is and stays removed from that list; only an exception of the work
\* function makes the launcher raise.
C15_WriteFailureDoesNotAbort ==
    /\ [][WriteFails => pc' \in {"as_completed", "shutdown"}]_vars
    /\ [][\A p \in DOMAIN geCounted :
            p \notin Range(proxy_list) => p \notin Range(proxy_list')]_vars
    /\ [](\A p \in DOMAIN geCounted :
            (p \in ceProcessed \/ geCounted[p] = MAX_RETRIES)
                => p \notin Range(proxy_list))
    /\ [][SubmissionEnds => DOMAIN futures' = Range(proxy_list)]_vars
    /\ [][(pc # "unwinding" /\ pc' = "unwinding")
            => \E p \in DOMAIN futures : ConsumedStep(p, Exception)]_vars

\* a round started after a failed write: the file still holds an evicted
\* proxy, which the round does not offer
C15_Witness ==
    /\ pc = "as_completed"
    /\ \E p \in Range(proxy_file) : p \in Evicted /\ p \notin DOMAIN futures
    /\ Running # {}

\* ------------------------------------------------------------------ C16
\* C16: the launcher raises only for an exception of the work function, and
\* it does so when that attempt's result is consumed: the step changes
\* neither the job's completion, nor the proxy list and file, nor the
\* failure dictionary, and the exception then leaves the launcher; consuming
\* Success, PageConnectionError or GenericError never aborts the round.
C16_OnlyExceptionAborts ==
    /\ [][\A p \in DOMAIN futures :
            ConsumedStep(p, Exception) =>
               /\ pc' = "unwinding"
               /\ IsCompleted' = IsCompleted /\ incomplete_jobs' = incomplete_jobs
               /\ proxy_list' = proxy_list /\ proxy_file' = proxy_file
               /\ proxy_failures' = proxy_failures]_vars
    /\ [][\A p \in DOMAIN futures :
            \A status \in {Success, PageConnectionError, GenericError} :
               ConsumedStep(p, status) => pc' \in {"as_completed", "shutdown"}]_vars
    /\ [][(pc # "unwinding" /\ pc' = "unwinding")
            => \E p \in DOMAIN futures : ConsumedStep(p, Exception)]_vars
    /\ [][pc = "unwinding" => pc' \in {"unwinding", "raised"}]_vars
    /\ [][pc' = "raised" => pc \in {"unwinding", "raised"}]_vars
    /\ [](pc = "raised" => result = NoResult)

\* the launcher has raised, after a PageConnectionError and a GenericError
\* had been consumed without aborting, with a job and a proxy left
C16_Witness ==
    /\ pc = "raised"
    /\ ceProcessed # {}
    /\ \E p \in DOMAIN geCounted : geCounted[p] > 0
    /\ incomplete_jobs # <<>> /\ proxy_list # <<>>

\* ------------------------------------------------------------------ C17
\* C17: the scheduler consumes the attempts of a round as they get done, in
\* any order with respect to their submission, and a Success consumed after
\* failures of other proxies completes the job: when a round is left with
\* the job still incomplete, none of its attempts returned Success (each
\* was consumed, with a status other than Success).
C17_LateSuccessStillCounts ==
    /\ [][\A p \in DOMAIN futures :
            ConsumedStep(p, Success) => IsCompleted'[job] /\ job \notin Range(incomplete_jobs')]_vars
    /\ [][(RoundEnds /\ ~IsCompleted[job]) =>
            \A p \in DOMAIN futures :
                futures[p].state = "consumed" /\ futures[p].status # Success]_vars

\* the proxy submitted second failed and was consumed first; the Success of
\* the proxy submitted first was consumed after it and completed the job
C17_Witness ==
    /\ pc = "shutdown"
    /\ Len(submitted) > 1
    /\ futures[submitted[1]] = [state |-> "consumed", status |-> Success]
    /\ futures[submitted[2]].state = "consumed"
    /\ futures[submitted[2]].status \in {PageConnectionError, GenericError}
    /\ IsCompleted[job]

\* ------------------------------------------------------------------ C18
\* C18: a round submits, one by one and each one queued, one attempt for
\* each proxy that is in the pool when the round starts (the pool does not
\* change while the round submits); once they are submitted the set of the
\* round's attempts does not change until the round is left, whichever
\* proxies the round removes from the pool; an attempt is started once, and
\* only while fewer than `workers` attempts are running, so that never more
\* than `workers` attempts run at once, the others waiting in the queue.
C18_OneAttemptPerPooledProxyWithinLimit ==
    /\ [][RoundStarts => submitted' = <<>> /\ futures' = <<>>]_vars
    /\ [][pc = "submit" => proxy_list' = proxy_list]_vars
    /\ [][\A p \in DOMAIN geCounted :
            Submits(p) => /\ futures'[p].state = "queued"
                          /\ p \in Range(proxy_list)
                          /\ submitted' = Append(submitted, p)]_vars
    /\ [][SubmissionEnds =>
            /\ submitted' = proxy_list
            /\ DOMAIN futures' = Range(proxy_list)]_vars
    /\ [][(pc \in {"as_completed", "shutdown", "unwinding"} /\ InRound') =>
            /\ submitted' = submitted
            /\ DOMAIN futures' = DOMAIN futures]_vars
    /\ [][\A p \in DOMAIN futures \cap DOMAIN futures' :
            (futures[p].state # "running" /\ futures'[p].state = "running") =>
                /\ futures[p].state = "queued"
                /\ Cardinality(Running) < workers]_vars
    /\ [](Cardinality(Running) <= workers)
    /\ [](InRound => DOMAIN futures = Range(submitted))

\* two attempts were submitted to a single worker; the first one's proxy has
\* been removed from the pool by its outcome, and the second attempt, which
\* had to wait for the worker, is running all the same
C18_Witness ==
    /\ pc = "as_completed"
    /\ Len(submitted) > 1
    /\ workers < Len(submitted)
    /\ futures[submitted[1]].state = "consumed"
    /\ submitted[1] \notin Range(proxy_list)
    /\ futures[submitted[2]].state = "running"
    /\ Cardinality(Running) = workers

\* ------------------------------------------------------------------ C19
\* C19: once the pool is empty, a round that starts submits no attempt and
\* goes straight to the executor's shutdown; during such a round the work
\* function is not called and no job's completion changes; and from the
\* moment the pool is empty within a sweep, the sweep runs to its end and
\* the launcher returns.
C19_EmptyRoundsFinishTheSweep ==
    /\ [][(pc = "submit" /\ proxy_list = <<>>) =>
            /\ futures = <<>> /\ futures' = <<>>
            /\ pc' = "shutdown"]_vars
    /\ [][(pc = "shutdown" /\ submitted = <<>>) =>
            /\ called' = called
            /\ IsCompleted' = IsCompleted
            /\ incomplete_jobs' = incomplete_jobs
            /\ pc' \in {"shutdown", "for"}]_vars
    /\ ((proxy_list = <<>> /\ pc \in {"for", "submit", "shutdown"}) ~> (pc = "done"))

\* an earlier job of the sweep was attempted and emptied the pool; the
\* current job, never attempted, is in a round with no attempts
C19_Witness ==
    /\ pc = "shutdown"
    /\ proxy_list = <<>>
    /\ submitted = <<>> /\ futures = <<>>
    /\ job \in Range(incomplete_jobs)
    /\ job \notin called
    /\ called # {}

\* ------------------------------------------------------------------ C20
\* C20: the step that consumes an outcome of the attempt made with proxy p
\* leaves every other proxy q as it was: q stays in the pool if it was in
\* it, and q's entry in the failure tally (present or absent, and its
\* count) is unchanged; a proxy removed on a GenericError has had
\* MAX_RETRIES GenericErrors of its own consumed.
C20_OutcomeTouchesOnlyItsProxy ==
    /\ [][\A p \in DOMAIN futures : \A status \in Statuses :
            ConsumedStep(p, status) =>
               \A q \in DOMAIN geCounted \ {p} :
                  /\ (q \in Range(proxy_list) <=> q \in Range(proxy_list'))
                  /\ (q \in DOMAIN proxy_failures <=> q \in DOMAIN proxy_failures')
                  /\ (q \in DOMAIN proxy_failures =>
                         proxy_failures'[q] = proxy_failures[q])
                  /\ geCounted'[q] = geCounted[q]]_vars
    /\ [][\A p \in DOMAIN futures :
            (ConsumedStep(p, GenericError)
               /\ p \in Range(proxy_list) /\ p \notin Range(proxy_list'))
            => geCounted'[p] = MAX_RETRIES]_vars

\* two proxies are both one GenericError short of eviction: more than
\* MAX_RETRIES GenericErrors have been counted in all, and both proxies are
\* still in the pool
C20_Witness ==
    \E p, q \in Range(proxy_list) :
        /\ p # q
        /\ p \in DOMAIN proxy_failures /\ q \in DOMAIN proxy_failures
        /\ proxy_failures[p] = MAX_RETRIES - 1
        /\ proxy_failures[q] = MAX_RETRIES - 1

\* ------------------------------------------------------------------ C21
\* C21: in every state of the run (between the consumption of any two
\* outcomes) each entry of the failure dictionary holds a count from 1 to
\* MAX_RETRIES - 1; the step that consumes the GenericError that would bring
\* an entry to MAX_RETRIES deletes the entry and removes the proxy from the
\* pool in that same step.
C21_TallyBelowCeiling ==
    /\ [](\A p \in DOMAIN proxy_failures :
            proxy_failures[p] \in 1..(MAX_RETRIES - 1))
    /\ [][\A p \in DOMAIN futures :
            (ConsumedStep(p, GenericError)
               /\ p \in DOMAIN proxy_failures
               /\ proxy_failures[p] = MAX_RETRIES - 1)
            => /\ p \notin DOMAIN proxy_failures'
               /\ p \notin Range(proxy_list')]_vars

\* one proxy has been evicted by its MAX_RETRIES-th GenericError and has no
\* entry any more, while another one holds an entry of MAX_RETRIES - 1
C21_Witness ==
    \E p \in DOMAIN proxy_failures : \E q \in DOMAIN geCounted :
        /\ proxy_failures[p] = MAX_RETRIES - 1
        /\ q \notin DOMAIN proxy_failures
        /\ q \notin Range(proxy_list)
        /\ geCounted[q] = MAX_RETRIES

\* ------------------------------------------------------------------ C22
\* C22: a pipeline starts the extraction only from a return of True of the
\* launcher; a return of False is followed only by a new invocation of the
\* launcher, which loads the proxy list and generates the jobs anew; and
\* when the extraction starts, every job of the last invocation is
\* completed or has its artifact.
C22_ExtractionOnlyAfterTrue ==
    /\ [][(pc # "extracting" /\ pc' = "extracting") =>
            (pc = "done" /\ result = TRUE)]_vars
    /\ [][(pc = "done" /\ result = FALSE) =>
            /\ pc' = "start"
            /\ IsCompleted' = NewJobIsCompleted(video_jobs)
            /\ incomplete_jobs' = <<>>
            /\ proxy_failures' = <<>>
            /\ proxy_file' = StoredProxies(proxy_list')]_vars
    /\ [](pc = "extracting" =>
            /\ result = TRUE
            /\ \A j \in JobSet : isfile[j] \/ IsCompleted[j]
            /\ incomplete_jobs = <<>>)

\* the extraction has started after a return of False and a further
\* invocation of the launcher, which found the artifact of every job
C22_Witness ==
    /\ pc = "extracting"
    /\ relaunched
    /\ result = TRUE
    /\ \A j \in JobSet : isfile[j]

====
